---- MODULE Spec2Model ----
(***************************************************************************)
(* Mind-Space: the IndexedDB persistence layer (src/src/utils/storage.ts), *)
(* its derived queries (getStreak, getWeeklyData) and the two components   *)
(* that write through it (StressQuiz and Journal, both in                  *)
(* src/src/components/StressQuiz.tsx).                                     *)
(*                                                                         *)
(* Instants are milliseconds since the epoch, as Date.now() gives them.    *)
(* A date key 'YYYY-MM-DD' is modelled by its day number (days since the   *)
(* epoch): the zero-padded ISO form orders as the day numbers do, so       *)
(* localeCompare on keys is < on day numbers.  The three conversions of    *)
(* the code between instants and keys are modelled by what they compute:   *)
(*   format(d, 'yyyy-MM-dd')        the LOCAL calendar day of d            *)
(*   d.toISOString().split('T')[0]  the UTC calendar day of d              *)
(*   new Date('YYYY-MM-DD')         UTC midnight of that day               *)
(***************************************************************************)
EXTENDS Integers, Sequences, FiniteSets, TLC

\* ------------------------------------------------------------------ bounds
BaseDay == 10          \* the day (UTC) on which the clock starts
MaxCalls == 1          \* accessor calls of the storage client in flight at once
TzHours == 8           \* the local time zones are UTC-TzHours, UTC and UTC+TzHours
TickHours == 18        \* the clock of the derived queries advances in steps of TickHours
MaxClockSteps == 1     \* ... at most MaxClockSteps times
MaxBreathTicks == 14   \* the breathing exercise is followed for MaxBreathTicks seconds

\* --------------------------------------------------------- program constants
MsPerDay == 86400000   \* 1000 * 60 * 60 * 24
NumQuestions == 10     \* QUESTIONS: ids 1..10
ScaleMax == 5          \* SCALE_OPTIONS: values 1..5
LowMax == 25           \* STRESS_LEVELS.LOW.max
ModerateMax == 40      \* STRESS_LEVELS.MODERATE.max
AUTO_SAVE_DELAY == 2000
PHASE_DURATIONS == [inhale |-> 4000, hold |-> 4000, exhale |-> 4000, rest |-> 1000]
DB_VERSION == 2

\* ------------------------------------------------------------------- state
VARIABLES
    db,            \* module-level `db`: "null" or "open"
    initPromise,   \* module-level `initPromise`: "null", "pending", "resolved", "rejected"
    idbSupported,  \* window.indexedDB is defined
    opens,         \* how many indexedDB.open requests the process has issued
    schema,        \* the database on disk: its version and its object stores, and
                   \* the version the last open found (event.oldVersion)
    backendOk,     \* the backend answers the next request with success (else with error)
    store,         \* object store name -> set of records held
    calls,         \* accessor calls in flight, in order of issue
    ret,           \* the call settled by the last step, with its outcome
    lastWrite,     \* history: store -> the records last successfully put, less those deleted or cleared since
    now,           \* the clock (ms)
    tz,            \* local time = UTC + tz (ms)
    wk,            \* the getWeeklyData() call in progress
    quiz,          \* StressQuiz component state
    journal,       \* Journal component state
    mood,          \* MoodTracker component state
    breath         \* BreathingExercise component state

vars == <<db, initPromise, idbSupported, opens, schema, backendOk, store, calls, ret, lastWrite, now, tz,
          wk, quiz, journal, mood, breath>>
conn == <<db, initPromise, idbSupported, opens, schema>>
clock == <<now, tz>>

\* ------------------------------------------------------------ JS values
NULL == [null |-> TRUE]
UNDEFINED == [undefined |-> TRUE]
NoDate == -1
NoNote == "undefined"

MOODS_STORE == "moods"
STRESS_QUIZ_STORE == "stressQuizzes"
JOURNAL_STORE == "journals"
StoreNames == {MOODS_STORE, STRESS_QUIZ_STORE, JOURNAL_STORE}

\* x || null
OrNull(x) == IF x = UNDEFINED THEN NULL ELSE x

\* ------------------------------------------------- IndexedDB object store
\* An object store with keyPath 'date', as a set of records.
IDBGet(s, key) ==
    IF \E r \in s : r.date = key THEN CHOOSE r \in s : r.date = key ELSE UNDEFINED

\* mutants of put: add() without replacing; keep the record already there
IDBPutAdd(s, entry) == s \cup {entry}

IDBPutKeep(s, entry) == IF \E r \in s : r.date = entry.date THEN s ELSE s \cup {entry}

\* mutant of put: the record replaces the object store's contents
IDBPutOnly(s, entry) == {entry}

IDBPut(s, entry) == {r \in s : r.date # entry.date} \cup {entry}

\* mutant of delete: the filter inverted
IDBDeleteInverted(s, key) == {r \in s : r.date = key}

IDBDelete(s, key) == {r \in s : r.date # key}

IDBClear(s) == {}

\* getAll() answers in ascending key order.
RECURSIVE IDBGetAll(_)
IDBGetAll(s) ==
    IF s = {} THEN <<>>
    ELSE LET r == CHOOSE x \in s : \A y \in s : x.date <= y.date
         IN <<r>> \o IDBGetAll(s \ {r})

\* ------------------------------------------------------------- the clock
T0 == BaseDay * MsPerDay

\* format(new Date(t), 'yyyy-MM-dd'): the local calendar day
FormatLocal(t) == (t + tz) \div MsPerDay

\* new Date(t).toISOString().split('T')[0]: the UTC calendar day
ISODate(t) == t \div MsPerDay

\* new Date('YYYY-MM-DD'): a date-only ISO string parses as UTC midnight
ParseDate(d) == d * MsPerDay

\* date.setHours(0, 0, 0, 0): local midnight of the instant's local day
SetHoursZero(t) == ((t + tz) \div MsPerDay) * MsPerDay - tz

\* --------------------------------------------------------------- calls
\* ret: the accessor (op, store, key, entry), whether it resolved (ok) and with
\* what (val); old is the record its key held when the request ran, clean
\* whether no write to moods landed while a getWeeklyData() was in progress.
NoRet == [op |-> "none", store |-> "none", key |-> NoDate, entry |-> NULL, ok |-> TRUE,
          val |-> NULL, old |-> NULL, clean |-> TRUE]

Ret(op, st, key, entry, ok, val, old, clean) ==
    [op |-> op, store |-> st, key |-> key, entry |-> entry, ok |-> ok, val |-> val,
     old |-> old, clean |-> clean]

\* mutant of an accessor's first line: the transaction is begun at once
CallNoWait(op, st, key, entry, caller) ==
    [op |-> op, store |-> st, key |-> key, entry |-> entry, caller |-> caller,
     st |-> "req", waited |-> db = "null"]

\* An accessor call: "init" while it awaits initIndexedDB(), "req" once it has
\* begun its transaction; waited records which way it came.
Call(op, st, key, entry, caller) ==
    [op |-> op, store |-> st, key |-> key, entry |-> entry, caller |-> caller,
     \* if (!db) await initIndexedDB()
     st |-> IF db = "null" THEN "init" ELSE "req",
     waited |-> db = "null"]

Remove(q, i) == SubSeq(q, 1, i - 1) \o SubSeq(q, i + 1, Len(q))

\* A request runs when no earlier request on its object store is outstanding.
CanRun(i) ==
    /\ calls[i].st = "req"
    /\ \A j \in 1..(i - 1) : ~(calls[j].st = "req" /\ calls[j].store = calls[i].store)

\* The contents of the call's object store after the request has run.
Exec(c, s) ==
    CASE c.op = "put" -> IDBPut(s, c.entry)
      [] c.op = "delete" -> IDBDelete(s, c.key)
      [] c.op = "clear" -> IDBClear(s)
      [] OTHER -> s

\* What the accessor resolves with.
Result(c, s) ==
    CASE c.op = "get" -> OrNull(IDBGet(s, c.key))
      [] c.op = "getAll" -> IDBGetAll(s)
      [] OTHER -> NULL

\* The history of successful writes to a store: the last record saved for each
\* date, until the date is deleted or the store cleared.
Written(c, lw) ==
    CASE c.op = "put" -> {r \in lw : r.date # c.entry.date} \cup {c.entry}
      [] c.op = "delete" -> {r \in lw : r.date # c.key}
      [] c.op = "clear" -> {}
      [] OTHER -> lw

\* the record last saved for date d in store n, NULL if none (or deleted since)
LastSaved(n, d) ==
    IF \E r \in lastWrite[n] : r.date = d
    THEN CHOOSE r \in lastWrite[n] : r.date = d
    ELSE NULL

IsWrite(c) == c.op \in {"put", "delete", "clear"}

\* ------------------------------------------------------- initialization
\* mutant of initIndexedDB(): a rejected promise is not kept
InitIndexedDBRetry ==
    IF initPromise \in {"pending", "resolved"} THEN initPromise
    ELSE IF ~idbSupported THEN "rejected"
    ELSE "pending"

\* initIndexedDB(): the cached promise if there is one, else a new open.
InitIndexedDB ==
    IF initPromise # "null" THEN initPromise
    ELSE IF ~idbSupported THEN "rejected"
    ELSE "pending"

\* mutant of the cache test: every call opens
OpenIssuedAlways == idbSupported

\* The call gets past `if (initPromise) return initPromise` and the support
\* test, to indexedDB.open(DB_NAME, DB_VERSION).
OpenIssued == initPromise = "null" /\ idbSupported

\* if (typeof window !== 'undefined') initIndexedDB().catch(...)
ModuleLoad ==
    /\ initPromise = "null"
    /\ initPromise' = InitIndexedDB
    /\ opens' = opens + (IF OpenIssued THEN 1 ELSE 0)
    /\ ret' = NoRet
    /\ UNCHANGED <<db, idbSupported, schema, backendOk, store, calls, lastWrite, clock, wk, quiz, journal, mood, breath>>

\* A later call of the exported initIndexedDB(), as the accessors make while
\* db is null.
InitCall ==
    /\ initPromise # "null"
    /\ initPromise' = InitIndexedDB
    /\ opens' = opens + (IF OpenIssued THEN 1 ELSE 0)
    /\ ret' = NoRet
    /\ UNCHANGED <<db, idbSupported, schema, backendOk, store, calls, lastWrite, clock, wk, quiz, journal, mood, breath>>

\* mutant of the version test: oldVersion < 1
BelowV1(oldVersion) == oldVersion < 1

\* oldVersion < 2
BelowV2(oldVersion) == oldVersion < 2

\* request.onupgradeneeded: the object stores after the upgrade transaction
OnUpgradeNeeded(s) ==
    LET oldVersion == s.version
        withMoods == IF MOODS_STORE \notin s.stores
                     THEN s.stores \cup {MOODS_STORE} ELSE s.stores
        withQuiz == IF BelowV2(oldVersion) /\ STRESS_QUIZ_STORE \notin withMoods
                    THEN withMoods \cup {STRESS_QUIZ_STORE} ELSE withMoods
        withJournal == IF BelowV2(oldVersion) /\ JOURNAL_STORE \notin withQuiz
                       THEN withQuiz \cup {JOURNAL_STORE} ELSE withQuiz
    IN [version |-> DB_VERSION, oldVersion |-> oldVersion, stores |-> withJournal]

\* indexedDB.open(DB_NAME, DB_VERSION) upgrades a database of a lower version.
Upgrade(s) ==
    IF s.version < DB_VERSION THEN OnUpgradeNeeded(s) ELSE [s EXCEPT !.oldVersion = s.version]

\* request.onsuccess: db = request.result; resolve().  The accessors awaiting the
\* promise resume in the order they were called and open their transactions.
\* An object store the upgrade created is empty, the others are as they were.
OpenSuccess ==
    /\ initPromise = "pending"
    /\ backendOk
    /\ db' = "open"
    /\ initPromise' = "resolved"
    /\ schema' = Upgrade(schema)
    /\ store' = [n \in StoreNames |-> IF n \in schema.stores THEN store[n] ELSE {}]
    /\ calls' = [i \in 1..Len(calls) |-> [calls[i] EXCEPT !.st = "req"]]
    /\ ret' = NoRet
    /\ UNCHANGED <<idbSupported, opens, backendOk, lastWrite, clock, wk, quiz, journal, mood, breath>>

\* request.onerror: reject(request.error)
OpenError ==
    /\ initPromise = "pending"
    /\ ~backendOk
    /\ initPromise' = "rejected"
    /\ ret' = NoRet
    /\ UNCHANGED <<db, idbSupported, opens, schema, backendOk, store, calls, lastWrite, clock, wk, quiz, journal, mood, breath>>

\* The environment: the backend starts failing requests, or recovers.
BackendFail ==
    /\ backendOk
    /\ backendOk' = FALSE
    /\ ret' = NoRet
    /\ UNCHANGED <<conn, store, calls, lastWrite, clock, wk, quiz, journal, mood, breath>>

BackendRecover ==
    /\ ~backendOk
    /\ backendOk' = TRUE
    /\ ret' = NoRet
    /\ UNCHANGED <<conn, store, calls, lastWrite, clock, wk, quiz, journal, mood, breath>>

\* ------------------------------------------------------------ accessors
GetAllMoods(caller) == Call("getAll", MOODS_STORE, NoDate, NULL, caller)
GetMoodByDate(date, caller) == Call("get", MOODS_STORE, date, NULL, caller)
SaveMood(entry, caller) == Call("put", MOODS_STORE, entry.date, entry, caller)
DeleteMood(date, caller) == Call("delete", MOODS_STORE, date, NULL, caller)
ClearAll(caller) == Call("clear", MOODS_STORE, NoDate, NULL, caller)
SaveQuizResult(entry, caller) == Call("put", STRESS_QUIZ_STORE, entry.date, entry, caller)
GetQuizByDate(date, caller) == Call("get", STRESS_QUIZ_STORE, date, NULL, caller)
GetAllQuizzes(caller) == Call("getAll", STRESS_QUIZ_STORE, NoDate, NULL, caller)
SaveJournal(entry, caller) == Call("put", JOURNAL_STORE, entry.date, entry, caller)
GetJournalByDate(date, caller) == Call("get", JOURNAL_STORE, date, NULL, caller)
GetAllJournals(caller) == Call("getAll", JOURNAL_STORE, NoDate, NULL, caller)
DeleteJournal(date, caller) == Call("delete", JOURNAL_STORE, date, NULL, caller)

InFlight(caller) == Len(SelectSeq(calls, LAMBDA c : c.caller = caller))

\* An accessor is called: the module is loaded, the call joins those in flight.
Issue(c) ==
    /\ initPromise # "null"
    /\ calls' = Append(calls, c)
    /\ ret' = NoRet

\* mutant of a settling call: a failed request's write is applied all the same
SettlesApplied(i, ok) ==
    /\ i \in 1..Len(calls)
    /\ IF ok
       THEN CanRun(i) /\ backendOk
       ELSE \/ CanRun(i) /\ ~backendOk
            \/ calls[i].st = "init" /\ initPromise = "rejected"
    /\ store' = [store EXCEPT ![calls[i].store] = Exec(calls[i], @)]
    /\ lastWrite' = [lastWrite EXCEPT ![calls[i].store] = Written(calls[i], @)]
    /\ UNCHANGED <<conn, backendOk, clock>>

\* mutant of a settling call: a rejected initPromise is never delivered to the
\* accessors that await it
SettlesNoInitReject(i, ok) ==
    /\ i \in 1..Len(calls)
    /\ CanRun(i)
    /\ backendOk = ok
    /\ IF ok
       THEN /\ store' = [store EXCEPT ![calls[i].store] = Exec(calls[i], @)]
            /\ lastWrite' = [lastWrite EXCEPT ![calls[i].store] = Written(calls[i], @)]
       ELSE UNCHANGED <<store, lastWrite>>
    /\ UNCHANGED <<conn, backendOk, clock>>

\* Call i settles.  ok: its request ran and succeeded (onsuccess -> resolve).
\* ~ok: its request failed (onerror -> reject), or the awaited initPromise is
\* rejected; the store is as it was.
Settles(i, ok) ==
    /\ i \in 1..Len(calls)
    /\ IF ok
       THEN /\ CanRun(i)
            /\ backendOk
            /\ store' = [store EXCEPT ![calls[i].store] = Exec(calls[i], @)]
            /\ lastWrite' = [lastWrite EXCEPT ![calls[i].store] = Written(calls[i], @)]
       ELSE /\ \/ CanRun(i) /\ ~backendOk
               \/ calls[i].st = "init" /\ initPromise = "rejected"
            /\ UNCHANGED <<store, lastWrite>>
    /\ UNCHANGED <<conn, backendOk, clock>>

NullMood == "null"

\* mutant of the slot's mood: the note read instead
SlotNote(entry) == IF entry = NULL THEN NullMood ELSE entry.note

\* entry?.mood || null
SlotMood(entry) ==
    IF entry = NULL THEN NullMood
    ELSE IF entry.mood = "" THEN NullMood
    ELSE entry.mood

\* The getWeeklyData() call in progress.  History of the call: clean, whether
\* no write to moods has landed since it started; snaps, the contents the moods
\* store has had since it started that agree with every slot read so far,
\* recorded where hist is set.
WkIdle ==
    [active |-> FALSE, today |-> 0, i |-> 0, data |-> <<>>, clean |-> TRUE,
     hist |-> FALSE, snaps |-> {}]

\* The store contents s hold, under each slot's date, the slot's mood.
AgreesWith(s, data) ==
    \A k \in 1..Len(data) : SlotMood(OrNull(IDBGet(s, data[k].date))) = data[k].mood

\* A write to moods that lands while getWeeklyData() is in progress.
WkAfter(c, ok) ==
    IF wk.active /\ ok /\ IsWrite(c) /\ c.store = MOODS_STORE
    THEN [wk EXCEPT !.clean = FALSE,
                    !.snaps = @ \cup {t \in {Exec(c, store[MOODS_STORE])} :
                                         wk.hist /\ AgreesWith(t, wk.data)}]
    ELSE wk

\* ------------------------------------------- the storage client (any caller)
EnvCall(c) ==
    /\ InFlight("env") < MaxCalls
    /\ Issue(c)
    /\ UNCHANGED <<conn, backendOk, store, lastWrite, clock, wk, quiz, journal, mood, breath>>

EnvSettle(i, ok) ==
    /\ Settles(i, ok)
    /\ calls[i].caller = "env"
    /\ calls' = Remove(calls, i)
    /\ ret' = LET c == calls[i]
              IN Ret(c.op, c.store, c.key, c.entry, ok,
                     IF ok THEN Result(c, store[c.store]) ELSE NULL,
                     OrNull(IDBGet(store[c.store], c.key)), TRUE)
    /\ wk' = WkAfter(calls[i], ok)
    /\ UNCHANGED <<quiz, journal, mood, breath>>

\* -------------------------------------------------------- derived queries
\* moods.sort((a, b) => b.date.localeCompare(a.date)): newest first
RECURSIVE SortDesc(_)
SortDesc(q) ==
    IF q = <<>> THEN <<>>
    ELSE LET k == CHOOSE i \in 1..Len(q) : \A j \in 1..Len(q) : q[j].date <= q[i].date
         IN <<q[k]>> \o SortDesc(Remove(q, k))

\* The loop of getStreak, from index i (1-based here, i - 1 in the code).
RECURSIVE StreakWalk(_, _, _)
StreakWalk(sorted, i, today) ==
    IF i > Len(sorted) THEN 0
    ELSE LET entryDate == SetHoursZero(ParseDate(sorted[i].date))
             daysDiff == (today - entryDate) \div MsPerDay
         IN IF daysDiff = i - 1 THEN 1 + StreakWalk(sorted, i + 1, today) ELSE 0

\* getStreak, after getAllMoods has resolved with moods, at instant t
GetStreak(moods, t) ==
    IF Len(moods) = 0 THEN 0 ELSE StreakWalk(SortDesc(moods), 1, SetHoursZero(t))

\* date.setDate(date.getDate() - i); date.toISOString().split('T')[0]
WeeklyDate(today, i) == ISODate(today - i * MsPerDay)

GetStreakStart ==
    /\ InFlight("streak") = 0
    /\ Issue(GetAllMoods("streak"))
    /\ UNCHANGED <<conn, backendOk, store, lastWrite, clock, wk, quiz, journal, mood, breath>>

StreakSettle(i, ok) ==
    /\ Settles(i, ok)
    /\ calls[i].caller = "streak"
    /\ calls' = Remove(calls, i)
    /\ ret' = Ret("getStreak", MOODS_STORE, NoDate, NULL, ok,
                  IF ok THEN GetStreak(Result(calls[i], store[MOODS_STORE]), now) ELSE NULL,
                  NULL, TRUE)
    /\ UNCHANGED <<wk, quiz, journal, mood, breath>>

\* const today = new Date(); the first of the 7 lookups (i = 6)
WkStarted ==
    [active |-> TRUE, today |-> now, i |-> 6, data |-> <<>>, clean |-> TRUE,
     hist |-> wk.hist, snaps |-> IF wk.hist THEN {store[MOODS_STORE]} ELSE {}]

GetWeeklyDataStart ==
    /\ ~wk.active
    /\ wk' = WkStarted
    /\ Issue(GetMoodByDate(WeeklyDate(now, 6), "weekly"))
    /\ UNCHANGED <<conn, backendOk, store, lastWrite, clock, quiz, journal, mood, breath>>

\* A lookup settles: its slot is pushed and the next lookup issued, or the
\* seven slots returned; a failed lookup rejects the whole call.
WeeklyLookup(idx, ok) ==
    /\ Settles(idx, ok)
    /\ calls[idx].caller = "weekly"
    /\ LET c == calls[idx]
           slot == [date |-> c.key, mood |-> SlotMood(Result(c, store[MOODS_STORE]))]
           data == Append(wk.data, slot)
       IN IF ok /\ wk.i > 0
          THEN /\ wk' = [wk EXCEPT !.i = @ - 1, !.data = data,
                                   !.snaps = {t \in @ : AgreesWith(t, data)}]
               /\ calls' = Append(Remove(calls, idx),
                                  [GetMoodByDate(WeeklyDate(wk.today, wk.i - 1), "weekly")
                                     EXCEPT !.st = "req"])
               /\ ret' = NoRet
          ELSE /\ wk' = [WkIdle EXCEPT !.hist = wk.hist]
               /\ calls' = Remove(calls, idx)
               /\ ret' = Ret("getWeeklyData", MOODS_STORE, NoDate, NULL, ok,
                             IF ok THEN [today |-> wk.today, data |-> data] ELSE NULL,
                             NULL, wk.clean)

\* getWeeklyData() called by any caller but the mood tracker
WeeklySettle(idx, ok) ==
    /\ WeeklyLookup(idx, ok)
    /\ UNCHANGED <<quiz, journal, mood, breath>>

MsPerHour == MsPerDay \div 24

Tick(step) ==
    /\ now + step <= T0 + MaxClockSteps * step
    /\ now' = now + step
    /\ ret' = NoRet
    /\ UNCHANGED <<conn, backendOk, store, calls, lastWrite, tz, wk, quiz, journal, mood, breath>>

\* ------------------------------------------------------------ initial state
AllDates == (BaseDay - 8)..(BaseDay + 2)

QuizInit == [answers |-> <<>>, showResults |-> FALSE, score |-> 0]

\* lastSaved === null
NoTime == -1
\* autoSaveTimerRef holds no pending timeout
NoTimer == [set |-> FALSE]

\* The Journal component before it is mounted, and its useState initial values.
\* content is the textarea's text, a sequence of characters.  History of the
\* session: deletedAt is when a handleDelete() last completed (NoTime: never),
\* cleared whether the user has entered no content since.
JournalInit ==
    [mounted |-> FALSE, content |-> <<>>, isSaving |-> FALSE, lastSaved |-> NoTime,
     isDraft |-> FALSE, showDeleteConfirm |-> FALSE, timer |-> NoTimer,
     deletedAt |-> NoTime, cleared |-> FALSE]

\* The MoodTracker component's useState initial values, before its mount effect.
\* pc is where its handler in progress awaits; todayStr and entry are the
\* handler's closure (entry: the record handleSaveMood saves, NULL in the
\* mount's loadMoods); loaded, whether the handler's loadMoods() has completed.
MoodInit ==
    [mounted |-> FALSE, pc |-> "idle", todayStr |-> NoDate, entry |-> NULL,
     todayEntry |-> NULL, selectedMood |-> "", streak |-> 0, weeklyData |-> <<>>,
     loaded |-> FALSE]

\* The BreathingExercise component before it is mounted, and its useState and
\* useRef initial values; currentPhase and phaseStartTime are the variables of
\* startBreathing's closure.
BreathInit ==
    [mounted |-> FALSE, phase |-> "inhale", isRunning |-> FALSE, isRunningRef |-> FALSE,
     cycleCount |-> 0, interval |-> FALSE, currentPhase |-> "inhale", phaseStartTime |-> NoTime]

\* the database the application's own versions leave on disk: none yet,
\* version 1 (moods only), version 2
Schemas ==
    {[version |-> 0, oldVersion |-> 0, stores |-> {}],
     [version |-> 1, oldVersion |-> 1, stores |-> {MOODS_STORE}],
     [version |-> DB_VERSION, oldVersion |-> DB_VERSION, stores |-> StoreNames]}

InitCommon ==
    /\ db = "null"
    /\ initPromise = "null"
    /\ opens = 0
    /\ schema = [version |-> 0, oldVersion |-> 0, stores |-> {}]
    /\ backendOk = TRUE
    /\ store = [n \in StoreNames |-> {}]
    /\ calls = <<>>
    /\ ret = NoRet
    /\ lastWrite = [n \in StoreNames |-> {}]
    /\ now = T0
    /\ wk = WkIdle
    /\ quiz = QuizInit
    /\ journal = JournalInit
    /\ mood = MoodInit
    /\ breath = BreathInit

\* --------------------------------------------- specification: the store
\* Any caller of the exported accessors, with records of each type.
StoreDates == {BaseDay, BaseDay + 1}

MoodInputs ==
    {[date |-> d, mood |-> "Happy", note |-> NoNote] : d \in StoreDates}
    \cup {[date |-> d, mood |-> "Sad", note |-> "rough day"] : d \in StoreDates}

QuizDates == {BaseDay}

QuizInputs ==
    {[date |-> d, score |-> 10, level |-> "Low", answers |-> [q \in 1..10 |-> 1],
      timestamp |-> T0] : d \in QuizDates}
    \cup {[date |-> d, score |-> 50, level |-> "High", answers |-> [q \in 1..10 |-> 5],
           timestamp |-> T0 + 1] : d \in QuizDates}

JournalInputs ==
    {[date |-> d, content |-> "a", draft |-> TRUE, lastModified |-> T0, createdAt |-> T0]
        : d \in StoreDates}
    \cup {[date |-> d, content |-> "b", draft |-> FALSE, lastModified |-> T0 + 1,
           createdAt |-> T0] : d \in StoreDates}

Init ==
    /\ InitCommon
    /\ idbSupported \in BOOLEAN
    /\ tz = 0

Next ==
    \/ ModuleLoad
    \/ InitCall
    \/ OpenSuccess
    \/ OpenError
    \/ BackendFail
    \/ BackendRecover
    \/ EnvCall(GetAllMoods("env"))
    \/ \E d \in StoreDates : EnvCall(GetMoodByDate(d, "env"))
    \/ \E e \in MoodInputs : EnvCall(SaveMood(e, "env"))
    \/ \E d \in StoreDates : EnvCall(DeleteMood(d, "env"))
    \/ EnvCall(ClearAll("env"))
    \/ \E e \in QuizInputs : EnvCall(SaveQuizResult(e, "env"))
    \/ \E d \in QuizDates : EnvCall(GetQuizByDate(d, "env"))
    \/ EnvCall(GetAllQuizzes("env"))
    \/ \E e \in JournalInputs : EnvCall(SaveJournal(e, "env"))
    \/ \E d \in StoreDates : EnvCall(GetJournalByDate(d, "env"))
    \/ EnvCall(GetAllJournals("env"))
    \/ \E d \in StoreDates : EnvCall(DeleteJournal(d, "env"))
    \/ \E i \in 1..Len(calls), ok \in BOOLEAN : EnvSettle(i, ok)

Spec == Init /\ [][Next]_vars

\* ------------------------------------------- specification: getStreak
\* Mood records of the days around the clock's day, written and deleted by any
\* caller while getStreak() runs, in three time zones.
TimeZones == {-TzHours * MsPerHour, 0, TzHours * MsPerHour}

StreakDates == (BaseDay - 2)..(BaseDay + 1)

StreakInputs == {[date |-> d, mood |-> "Happy", note |-> NoNote] : d \in StreakDates}

InitDerived ==
    /\ InitCommon
    /\ idbSupported = TRUE
    /\ tz \in TimeZones

NextStreak ==
    \/ ModuleLoad
    \/ OpenSuccess
    \/ Tick(TickHours * MsPerHour)
    \/ \E e \in StreakInputs : EnvCall(SaveMood(e, "env"))
    \/ \E d \in StreakDates : EnvCall(DeleteMood(d, "env"))
    \/ EnvCall(ClearAll("env"))
    \/ \E i \in 1..Len(calls) : EnvSettle(i, TRUE)
    \/ GetStreakStart
    \/ \E i \in 1..Len(calls) : StreakSettle(i, TRUE)

SpecStreak == InitDerived /\ [][NextStreak]_vars

\* --------------------------------------- specification: getWeeklyData
\* Mood records of the last two days of the week, written and deleted by any
\* caller while the seven lookups of getWeeklyData() run.
WeeklyDates == {BaseDay - 1, BaseDay}

WeeklyInputs ==
    {[date |-> d, mood |-> m, note |-> NoNote] : d \in WeeklyDates, m \in {"Happy", "Sad"}}

NextWeekly ==
    \/ ModuleLoad
    \/ OpenSuccess
    \/ Tick(TickHours * MsPerHour)
    \/ \E e \in WeeklyInputs : EnvCall(SaveMood(e, "env"))
    \/ \E d \in WeeklyDates : EnvCall(DeleteMood(d, "env"))
    \/ EnvCall(ClearAll("env"))
    \/ \E i \in 1..Len(calls) : EnvSettle(i, TRUE)
    \/ GetWeeklyDataStart
    \/ \E i \in 1..Len(calls) : WeeklySettle(i, TRUE)

SpecWeekly == InitDerived /\ [][NextWeekly]_vars

\* ------------------------ specification: getWeeklyData, with its history
\* SpecWeekly in one time zone, with one record per date, where the contents of
\* the moods store during a call are recorded.
SnapshotInputs == {[date |-> d, mood |-> "Happy", note |-> NoNote] : d \in WeeklyDates}

InitSnapshot ==
    /\ db = "null"
    /\ initPromise = "null"
    /\ idbSupported = TRUE
    /\ opens = 0
    /\ schema = [version |-> 0, oldVersion |-> 0, stores |-> {}]
    /\ backendOk = TRUE
    /\ store = [n \in StoreNames |-> {}]
    /\ calls = <<>>
    /\ ret = NoRet
    /\ lastWrite = [n \in StoreNames |-> {}]
    /\ now = T0
    /\ tz = 0
    /\ wk = [WkIdle EXCEPT !.hist = TRUE]
    /\ quiz = QuizInit
    /\ journal = JournalInit
    /\ mood = MoodInit
    /\ breath = BreathInit

NextSnapshot ==
    \/ ModuleLoad
    \/ OpenSuccess
    \/ \E e \in SnapshotInputs : EnvCall(SaveMood(e, "env"))
    \/ \E d \in WeeklyDates : EnvCall(DeleteMood(d, "env"))
    \/ EnvCall(ClearAll("env"))
    \/ \E i \in 1..Len(calls) : EnvSettle(i, TRUE)
    \/ GetWeeklyDataStart
    \/ \E i \in 1..Len(calls) : WeeklySettle(i, TRUE)

SpecSnapshot == InitSnapshot /\ [][NextSnapshot]_vars

\* ------------------------------- specification: initialization fails
\* The callers of the accessors and of the two derived queries, where the
\* backend may be unsupported, or fail the open (as a failed upgrade does) and
\* any request.
FailDates == {BaseDay}

FailInputs == {[date |-> BaseDay, mood |-> "Happy", note |-> NoNote]}

InitFail ==
    /\ InitCommon
    /\ idbSupported \in BOOLEAN
    /\ tz = 0

NextFail ==
    \/ ModuleLoad
    \/ InitCall
    \/ OpenSuccess
    \/ OpenError
    \/ BackendFail
    \/ BackendRecover
    \/ EnvCall(GetAllMoods("env"))
    \/ \E d \in FailDates : EnvCall(GetMoodByDate(d, "env"))
    \/ \E e \in FailInputs : EnvCall(SaveMood(e, "env"))
    \/ \E d \in FailDates : EnvCall(DeleteMood(d, "env"))
    \/ \E i \in 1..Len(calls), ok \in BOOLEAN : EnvSettle(i, ok)
    \/ GetStreakStart
    \/ \E i \in 1..Len(calls), ok \in BOOLEAN : StreakSettle(i, ok)
    \/ GetWeeklyDataStart
    \/ \E i \in 1..Len(calls), ok \in BOOLEAN : WeeklySettle(i, ok)

SpecFail == InitFail /\ [][NextFail]_vars

\* ------------------------------------- specification: schema upgrade
\* The page is opened on a database left by any version of the application,
\* with records in the object stores it has, and reloaded.
UpgradeMoods ==
    {{}, {[date |-> BaseDay, mood |-> "Happy", note |-> NoNote]},
     {[date |-> BaseDay, mood |-> "Sad", note |-> "rough day"],
      [date |-> BaseDay - 1, mood |-> "Happy", note |-> NoNote]}}

UpgradeJournals ==
    {{}, {[date |-> BaseDay, content |-> "a", draft |-> FALSE,
           lastModified |-> T0, createdAt |-> T0]}}

\* The page is reloaded: the module state of a new process.
Reload ==
    /\ initPromise \in {"resolved", "rejected"}
    /\ calls = <<>>
    /\ db' = "null"
    /\ initPromise' = "null"
    /\ opens' = 0
    /\ ret' = NoRet
    /\ UNCHANGED <<idbSupported, schema, backendOk, store, calls, lastWrite, clock, wk, quiz, journal, mood, breath>>

InitUpgrade ==
    /\ db = "null"
    /\ initPromise = "null"
    /\ idbSupported = TRUE
    /\ opens = 0
    /\ schema \in Schemas
    /\ backendOk = TRUE
    /\ \E moods \in UpgradeMoods, journals \in UpgradeJournals :
          store = [n \in StoreNames |->
                     IF n \notin schema.stores THEN {}
                     ELSE IF n = MOODS_STORE THEN moods
                     ELSE IF n = JOURNAL_STORE THEN journals
                     ELSE {}]
    /\ calls = <<>>
    /\ ret = NoRet
    /\ lastWrite = [n \in StoreNames |-> {}]
    /\ now = T0
    /\ tz = 0
    /\ wk = WkIdle
    /\ quiz = QuizInit
    /\ journal = JournalInit
    /\ mood = MoodInit
    /\ breath = BreathInit

NextUpgrade ==
    \/ ModuleLoad
    \/ OpenSuccess
    \/ OpenError
    \/ BackendFail
    \/ BackendRecover
    \/ Reload
    \/ EnvCall(GetAllMoods("env"))
    \/ \E e \in QuizInputs : EnvCall(SaveQuizResult(e, "env"))
    \/ \E d \in QuizDates : EnvCall(DeleteJournal(d, "env"))
    \/ \E i \in 1..Len(calls), ok \in BOOLEAN : EnvSettle(i, ok)

SpecUpgrade == InitUpgrade /\ [][NextUpgrade]_vars

\* ------------------------------- specification: one operation at a time
\* A database of the current version with records in its three object stores;
\* the accessors and the two derived queries are called one after the other.
FrameMoods == {[date |-> d, mood |-> "Happy", note |-> NoNote] : d \in StoreDates}

FrameQuizzes ==
    {[date |-> BaseDay, score |-> 10, level |-> "Low", answers |-> [q \in 1..10 |-> 1],
      timestamp |-> T0]}

FrameJournals ==
    {[date |-> d, content |-> "a", draft |-> FALSE, lastModified |-> T0, createdAt |-> T0]
        : d \in StoreDates}

InitFrame ==
    /\ db = "null"
    /\ initPromise = "null"
    /\ idbSupported = TRUE
    /\ opens = 0
    /\ schema = [version |-> DB_VERSION, oldVersion |-> DB_VERSION, stores |-> StoreNames]
    /\ backendOk = TRUE
    /\ \E d \in StoreDates :
          store = [n \in StoreNames |->
                     IF n = MOODS_STORE THEN {r \in FrameMoods : r.date = d}
                     ELSE IF n = JOURNAL_STORE THEN {r \in FrameJournals : r.date # d}
                     ELSE FrameQuizzes]
    /\ calls = <<>>
    /\ ret = NoRet
    /\ lastWrite = [n \in StoreNames |-> {}]
    /\ now = T0
    /\ tz = 0
    /\ wk = WkIdle
    /\ quiz = QuizInit
    /\ journal = JournalInit
    /\ mood = MoodInit
    /\ breath = BreathInit

NextFrame ==
    \/ ModuleLoad
    \/ OpenSuccess
    \/ calls = <<>> /\ EnvCall(GetAllMoods("env"))
    \/ calls = <<>> /\ \E d \in StoreDates : EnvCall(GetMoodByDate(d, "env"))
    \/ calls = <<>> /\ \E e \in FrameMoods : EnvCall(SaveMood(e, "env"))
    \/ calls = <<>> /\ \E d \in StoreDates : EnvCall(DeleteMood(d, "env"))
    \/ calls = <<>> /\ EnvCall(ClearAll("env"))
    \/ calls = <<>> /\ \E e \in FrameQuizzes : EnvCall(SaveQuizResult(e, "env"))
    \/ calls = <<>> /\ \E d \in QuizDates : EnvCall(GetQuizByDate(d, "env"))
    \/ calls = <<>> /\ EnvCall(GetAllQuizzes("env"))
    \/ calls = <<>> /\ \E e \in FrameJournals : EnvCall(SaveJournal(e, "env"))
    \/ calls = <<>> /\ \E d \in StoreDates : EnvCall(GetJournalByDate(d, "env"))
    \/ calls = <<>> /\ EnvCall(GetAllJournals("env"))
    \/ calls = <<>> /\ \E d \in StoreDates : EnvCall(DeleteJournal(d, "env"))
    \/ \E i \in 1..Len(calls) : EnvSettle(i, TRUE)
    \/ calls = <<>> /\ GetStreakStart
    \/ \E i \in 1..Len(calls) : StreakSettle(i, TRUE)
    \/ calls = <<>> /\ GetWeeklyDataStart
    \/ \E i \in 1..Len(calls) : WeeklySettle(i, TRUE)

SpecFrame == InitFrame /\ [][NextFrame]_vars

\* ------------------------------- specification: the backend answers
\* The callers of SpecFail, and of the journal accessors, each with one call at
\* a time, issued before, during or after initialization.  The backend answers
\* the open request and every request on an object store, with success or error.
LiveJournals ==
    {[date |-> BaseDay, content |-> "a", draft |-> FALSE, lastModified |-> T0, createdAt |-> T0]}

NextLive ==
    \/ ModuleLoad
    \/ InitCall
    \/ OpenSuccess
    \/ OpenError
    \/ BackendFail
    \/ BackendRecover
    \/ InFlight("env") = 0 /\ EnvCall(GetAllMoods("env"))
    \/ InFlight("env") = 0 /\ \E d \in FailDates : EnvCall(GetMoodByDate(d, "env"))
    \/ InFlight("env") = 0 /\ \E e \in FailInputs : EnvCall(SaveMood(e, "env"))
    \/ InFlight("env") = 0 /\ \E d \in FailDates : EnvCall(DeleteMood(d, "env"))
    \/ InFlight("env") = 0 /\ EnvCall(ClearAll("env"))
    \/ InFlight("env") = 0 /\ \E e \in LiveJournals : EnvCall(SaveJournal(e, "env"))
    \/ \E i \in 1..Len(calls), ok \in BOOLEAN : EnvSettle(i, ok)
    \/ GetStreakStart
    \/ \E i \in 1..Len(calls), ok \in BOOLEAN : StreakSettle(i, ok)
    \/ GetWeeklyDataStart
    \/ \E i \in 1..Len(calls), ok \in BOOLEAN : WeeklySettle(i, ok)

\* the backend fires onsuccess or onerror of every request it was given
BackendAnswers ==
    /\ WF_vars(OpenSuccess \/ OpenError)
    /\ WF_vars(\E i \in 1..Len(calls), ok \in BOOLEAN : EnvSettle(i, ok))
    /\ WF_vars(\E i \in 1..Len(calls), ok \in BOOLEAN : StreakSettle(i, ok))
    /\ WF_vars(\E i \in 1..Len(calls), ok \in BOOLEAN : WeeklySettle(i, ok))

SpecLive == InitFail /\ [][NextLive]_vars /\ BackendAnswers

\* ------------------------------------------------ StressQuiz component
\* mutant of allAnswered: some question answered, not every
SomeAnswered(answers) == \E q \in 1..NumQuestions : q \in DOMAIN answers

\* QUESTIONS.every((q) => answers[q.id] !== undefined)
AllAnswered(answers) == \A q \in 1..NumQuestions : q \in DOMAIN answers

\* Object.values(answers).reduce((sum, value) => sum + value, 0)
RECURSIVE SumOver(_, _)
SumOver(answers, ids) ==
    IF ids = {} THEN 0
    ELSE LET q == CHOOSE x \in ids : TRUE
         IN answers[q] + SumOver(answers, ids \ {q})

CalculateScore(answers) == SumOver(answers, DOMAIN answers)

\* mutant of getStressLevel: < for <=
GetStressLevelStrict(totalScore) ==
    IF totalScore < LowMax THEN "Low"
    ELSE IF totalScore < ModerateMax THEN "Moderate"
    ELSE "High"

\* getStressLevel(totalScore).label
GetStressLevel(totalScore) ==
    IF totalScore <= LowMax THEN "Low"
    ELSE IF totalScore <= ModerateMax THEN "Moderate"
    ELSE "High"

\* setAnswers((prev) => ({ ...prev, [questionId]: value })); the questions are
\* shown, and answered, while the results are not.
HandleAnswer(questionId, value) ==
    /\ initPromise # "null"
    /\ ~quiz.showResults
    /\ quiz' = [quiz EXCEPT !.answers =
                   [q \in DOMAIN quiz.answers \cup {questionId} |->
                       IF q = questionId THEN value ELSE quiz.answers[q]]]
    /\ ret' = NoRet
    /\ UNCHANGED <<conn, backendOk, store, calls, lastWrite, clock, wk, journal, mood, breath>>

\* The View Results button (disabled={!allAnswered}) runs handleSubmit, which
\* shows the results and saves the entry.
HandleSubmit ==
    /\ ~quiz.showResults
    /\ AllAnswered(quiz.answers)
    /\ LET totalScore == CalculateScore(quiz.answers)
           entry == [date |-> FormatLocal(now),
                     score |-> totalScore,
                     level |-> GetStressLevel(totalScore),
                     answers |-> quiz.answers,
                     timestamp |-> now]
       IN /\ quiz' = [quiz EXCEPT !.score = totalScore, !.showResults = TRUE]
          /\ Issue(SaveQuizResult(entry, "quiz"))
    /\ UNCHANGED <<conn, backendOk, store, lastWrite, clock, wk, journal, mood, breath>>

\* await stressQuizStorage.saveQuizResult(entry) settles; a failure is logged.
QuizSettle(i, ok) ==
    /\ Settles(i, ok)
    /\ calls[i].caller = "quiz"
    /\ calls' = Remove(calls, i)
    /\ ret' = LET c == calls[i]
              IN Ret(c.op, c.store, c.key, c.entry, ok, NULL,
                     OrNull(IDBGet(store[c.store], c.key)), TRUE)
    /\ UNCHANGED <<wk, quiz, journal, mood, breath>>

\* Retake Quiz
HandleReset ==
    /\ quiz.showResults
    /\ quiz' = [answers |-> <<>>, showResults |-> FALSE, score |-> 0]
    /\ ret' = NoRet
    /\ UNCHANGED <<conn, backendOk, store, calls, lastWrite, clock, wk, journal, mood, breath>>

\* ---------------------------------------------- specification: the quiz
\* The user's answers: the questions are answered top to bottom, each answer
\* at most the one before it, and at most one of them strictly between 1 and
\* ScaleMax.  These answer sheets reach every score from 10 to 50.  The user
\* reads the results until the save has settled, and then may retake the quiz.
UserAnswers(questionId, value) ==
    /\ questionId = Len(quiz.answers) + 1
    /\ questionId > 1 => value <= quiz.answers[questionId - 1]
    /\ value \in {1, ScaleMax} \/ \A q \in DOMAIN quiz.answers : quiz.answers[q] \in {1, ScaleMax}

InitQuiz ==
    /\ InitCommon
    /\ idbSupported \in BOOLEAN
    /\ tz = 0

NextQuiz ==
    \/ ModuleLoad
    \/ OpenSuccess
    \/ \E q \in 1..NumQuestions, v \in 1..ScaleMax : UserAnswers(q, v) /\ HandleAnswer(q, v)
    \/ HandleSubmit
    \/ InFlight("quiz") = 0 /\ HandleReset
    \/ \E i \in 1..Len(calls), ok \in BOOLEAN : QuizSettle(i, ok)

SpecQuiz == InitQuiz /\ [][NextQuiz]_vars

\* --------------------------------------------------- Journal component
\* String.prototype.trim on a sequence of characters
RECURSIVE TrimStart(_)
TrimStart(text) ==
    IF text # <<>> /\ Head(text) = " " THEN TrimStart(Tail(text)) ELSE text

RECURSIVE TrimEnd(_)
TrimEnd(text) ==
    IF text # <<>> /\ text[Len(text)] = " "
    THEN TrimEnd(SubSeq(text, 1, Len(text) - 1)) ELSE text

\* mutant of trim: the text as it is
TrimNone(text) == text

Trim(text) == TrimEnd(TrimStart(text))

\* The [content] effect of a render with the given content and lastSaved: its
\* cleanup has cleared the pending timeout, and a non-blank content sets a new
\* one, whose callback is the autoSaveDraft of that render.
TimerAfter(content, lastSaved) ==
    IF Trim(content) # <<>>
    THEN [set |-> TRUE, due |-> now + AUTO_SAVE_DELAY, content |-> content,
          lastSaved |-> lastSaved]
    ELSE NoTimer

\* mutant of createdAt: the time the pending auto-save is due
CreatedAtDue(lastSaved) == now + AUTO_SAVE_DELAY

\* createdAt: lastSaved ? new Date(lastSaved).getTime() : Date.now()
CreatedAt(lastSaved) == IF lastSaved # NoTime THEN lastSaved ELSE now

\* mutant of the entry: draft whatever the handler
JournalEntryDraft(content, lastSaved, draft) ==
    [date |-> FormatLocal(now), content |-> Trim(content), draft |-> TRUE,
     lastModified |-> now, createdAt |-> IF lastSaved # NoTime THEN lastSaved ELSE now]

\* The entry autoSaveDraft and handleSave build from the content and lastSaved
\* of their render.
JournalEntryOf(content, lastSaved, draft) ==
    [date |-> FormatLocal(now), content |-> Trim(content), draft |-> draft,
     lastModified |-> now, createdAt |-> CreatedAt(lastSaved)]

JournalCallers == {"jload", "jauto", "jsave", "jdel"}

\* The route renders <Journal />: the mount effect calls loadJournal().
Mount ==
    /\ ~journal.mounted
    /\ journal' = [JournalInit EXCEPT !.mounted = TRUE]
    /\ Issue(GetJournalByDate(FormatLocal(now), "jload"))
    /\ UNCHANGED <<conn, backendOk, store, lastWrite, clock, wk, quiz, mood, breath>>

\* The route changes, or the page is left: the effect's cleanup clears the timer.
Unmount ==
    /\ journal.mounted
    /\ journal' = JournalInit
    /\ ret' = NoRet
    /\ UNCHANGED <<conn, backendOk, store, calls, lastWrite, clock, wk, quiz, mood, breath>>

\* setContent(e.target.value), and the [content] effect of the next render
HandleContentChange(text) ==
    /\ journal.mounted
    /\ text # journal.content
    /\ journal' = [journal EXCEPT !.content = text,
                                  !.timer = TimerAfter(text, journal.lastSaved),
                                  !.cleared = @ /\ Trim(text) = <<>>]
    /\ ret' = NoRet
    /\ UNCHANGED <<conn, backendOk, store, calls, lastWrite, clock, wk, quiz, mood, breath>>

\* The timeout expires and runs autoSaveDraft() up to its await.
AutoSaveDraft ==
    /\ journal.mounted
    /\ journal.timer.set
    /\ now >= journal.timer.due
    /\ Trim(journal.timer.content) # <<>>
    /\ journal' = [journal EXCEPT !.isSaving = TRUE, !.timer = NoTimer]
    /\ Issue(SaveJournal(JournalEntryOf(journal.timer.content, journal.timer.lastSaved, TRUE),
                         "jauto"))
    /\ UNCHANGED <<conn, backendOk, store, lastWrite, clock, wk, quiz, mood, breath>>

\* The save button (disabled={!content.trim() || isSaving}) runs handleSave()
\* up to its await.
HandleSave ==
    /\ journal.mounted
    /\ Trim(journal.content) # <<>>
    /\ ~journal.isSaving
    /\ journal' = [journal EXCEPT !.isSaving = TRUE]
    /\ Issue(SaveJournal(JournalEntryOf(journal.content, journal.lastSaved, FALSE), "jsave"))
    /\ UNCHANGED <<conn, backendOk, store, lastWrite, clock, wk, quiz, mood, breath>>

\* The Delete button (shown when content.trim()) and the panel's Cancel
SetShowDeleteConfirm(show) ==
    /\ journal.mounted
    /\ IF show THEN Trim(journal.content) # <<>> ELSE journal.showDeleteConfirm
    /\ journal.showDeleteConfirm # show
    /\ journal' = [journal EXCEPT !.showDeleteConfirm = show]
    /\ ret' = NoRet
    /\ UNCHANGED <<conn, backendOk, store, calls, lastWrite, clock, wk, quiz, mood, breath>>

\* Yes, Delete runs handleDelete() up to its await.
HandleDelete ==
    /\ journal.mounted
    /\ journal.showDeleteConfirm
    /\ Issue(DeleteJournal(FormatLocal(now), "jdel"))
    /\ UNCHANGED <<conn, backendOk, store, lastWrite, clock, wk, quiz, journal, mood, breath>>

\* The component after the awaited call has settled; the state updates of one
\* continuation are rendered together.
JournalAfter(c, ok, val) ==
    CASE c.caller = "jload" /\ ok /\ val # NULL ->
           [journal EXCEPT !.content = val.content,
                           !.isDraft = val.draft,
                           !.lastSaved = val.lastModified,
                           !.timer = IF val.content # journal.content
                                     THEN TimerAfter(val.content, val.lastModified)
                                     ELSE @]
      [] c.caller \in {"jauto", "jsave"} /\ ok ->
           [journal EXCEPT !.isDraft = (c.caller = "jauto"),
                           !.lastSaved = now,
                           !.isSaving = FALSE]
      [] c.caller \in {"jauto", "jsave"} /\ ~ok ->
           [journal EXCEPT !.isSaving = FALSE]
      [] c.caller = "jdel" /\ ok ->
           [journal EXCEPT !.content = <<>>,
                           !.isDraft = FALSE,
                           !.lastSaved = NoTime,
                           !.showDeleteConfirm = FALSE,
                           !.timer = IF journal.content # <<>> THEN NoTimer ELSE @,
                           !.deletedAt = now,
                           !.cleared = TRUE]
      [] OTHER -> journal

JournalSettle(i, ok) ==
    /\ Settles(i, ok)
    /\ calls[i].caller \in JournalCallers
    /\ journal.mounted
    /\ calls' = Remove(calls, i)
    /\ LET c == calls[i]
           val == IF ok THEN Result(c, store[c.store]) ELSE NULL
       IN /\ ret' = Ret(c.op, c.store, c.key, c.entry, ok, val,
                        OrNull(IDBGet(store[c.store], c.key)), TRUE)
          /\ journal' = JournalAfter(c, ok, val)
    /\ UNCHANGED <<wk, quiz, mood, breath>>

\* ------------------------------------------- specification: the journal
\* What the user types; a handler may start while up to MaxCalls calls are in
\* flight, and the user leaves the page when none is.
Texts == {<<>>, <<" ">>, <<"a">>, <<"b", " ">>}

InitJournal ==
    /\ InitCommon
    /\ idbSupported \in BOOLEAN
    /\ tz = 0

NextJournal ==
    \/ ModuleLoad
    \/ OpenSuccess
    \/ Mount
    \/ calls = <<>> /\ Unmount
    \/ \E text \in Texts : HandleContentChange(text)
    \/ Len(calls) <= MaxCalls /\ AutoSaveDraft
    \/ Len(calls) <= MaxCalls /\ HandleSave
    \/ \E show \in BOOLEAN : SetShowDeleteConfirm(show)
    \/ Len(calls) <= MaxCalls /\ HandleDelete
    \/ \E i \in 1..Len(calls), ok \in BOOLEAN : JournalSettle(i, ok)
    \/ Tick(AUTO_SAVE_DELAY)

SpecJournal == InitJournal /\ [][NextJournal]_vars

\* ------------------------------------------------ MoodTracker component
\* The route renders <MoodTracker />: the mount effect calls loadMoods(), which
\* awaits getMoodByDate(todayStr).  todayStr is format(new Date(), 'yyyy-MM-dd').
MoodMount ==
    /\ ~mood.mounted
    /\ mood' = [MoodInit EXCEPT !.mounted = TRUE, !.pc = "get", !.todayStr = FormatLocal(now)]
    /\ Issue(GetMoodByDate(FormatLocal(now), "mood"))
    /\ UNCHANGED <<conn, backendOk, store, lastWrite, clock, wk, quiz, journal, breath>>

\* A mood button: setSelectedMood(mood.emoji).  The note is left empty.
SetSelectedMood(m) ==
    /\ mood.mounted
    /\ mood.pc = "idle"
    /\ mood.selectedMood # m
    /\ mood' = [mood EXCEPT !.selectedMood = m]
    /\ ret' = NoRet
    /\ UNCHANGED <<conn, backendOk, store, calls, lastWrite, clock, wk, quiz, journal, breath>>

\* The body handleSaveMood and handleUpdateMood share, up to the await of
\* storage.saveMood(entry).  One handler of the component runs at a time.
SaveTodaysMood ==
    /\ mood.mounted
    /\ mood.pc = "idle"
    /\ mood.selectedMood # ""
    /\ LET entry == [date |-> FormatLocal(now), mood |-> mood.selectedMood, note |-> NoNote]
       IN /\ mood' = [mood EXCEPT !.pc = "save", !.todayStr = FormatLocal(now),
                                  !.entry = entry, !.loaded = FALSE]
          /\ Issue(SaveMood(entry, "mood"))
    /\ UNCHANGED <<conn, backendOk, store, lastWrite, clock, wk, quiz, journal, breath>>

\* The Save Mood button, rendered when there is no todayEntry
HandleSaveMood == mood.todayEntry = NULL /\ SaveTodaysMood

\* The Update Mood button, rendered when there is a todayEntry
HandleUpdateMood == mood.todayEntry # NULL /\ SaveTodaysMood

\* The readwrite transaction of a put whose request has succeeded: it has yet
\* to complete; undo is what the object store and the history held before it.
Transaction(c) ==
    [op |-> "commit", store |-> c.store, key |-> c.key, entry |-> c.entry, caller |-> "tx",
     st |-> "req", waited |-> c.waited,
     undo |-> [store |-> store[c.store], lastWrite |-> lastWrite[c.store]]]

\* The component and the calls in flight after the handler's awaited call i has
\* settled: the next await of handleSaveMood / loadMoods, or its catch.
MoodAfter(i, ok, val) ==
    LET c == calls[i]
        rest == Remove(calls, i)
        before == SubSeq(calls, 1, i - 1)
        after == SubSeq(calls, i + 1, Len(calls))
    IN CASE ~ok ->
              /\ mood' = [mood EXCEPT !.pc = "idle"]
              /\ calls' = rest
              /\ wk' = wk
         [] ok /\ mood.pc = "save" ->
              \* request.onsuccess -> resolve(); then loadMoods()
              /\ mood' = [mood EXCEPT !.pc = "get"]
              /\ calls' = Append(before \o <<Transaction(c)>> \o after,
                                 GetMoodByDate(mood.todayStr, "mood"))
              /\ wk' = wk
         [] ok /\ mood.pc = "get" ->
              /\ mood' = [mood EXCEPT !.pc = "all", !.todayEntry = val,
                                      !.selectedMood = IF val # NULL THEN val.mood ELSE @]
              /\ calls' = Append(rest, GetAllMoods("mood"))
              /\ wk' = wk
         [] ok /\ mood.pc = "all" ->
              \* getStreak(): const moods = await this.getAllMoods()
              /\ mood' = [mood EXCEPT !.pc = "streak"]
              /\ calls' = Append(rest, GetAllMoods("mood"))
              /\ wk' = wk
         [] ok /\ mood.pc = "streak" ->
              \* getWeeklyData(): the first of the 7 lookups
              /\ mood' = [mood EXCEPT !.pc = "weekly", !.streak = GetStreak(val, now)]
              /\ calls' = Append(rest, GetMoodByDate(WeeklyDate(now, 6), "weekly"))
              /\ wk' = WkStarted

MoodSettle(i, ok) ==
    /\ Settles(i, ok)
    /\ calls[i].caller = "mood"
    /\ LET c == calls[i]
           val == IF ok THEN Result(c, store[c.store]) ELSE NULL
       IN /\ ret' = Ret(c.op, c.store, c.key, c.entry, ok, val,
                        OrNull(IDBGet(store[c.store], c.key)), TRUE)
          /\ MoodAfter(i, ok, val)
    /\ UNCHANGED <<quiz, journal, breath>>

\* A lookup of the getWeeklyData() that loadMoods awaits settles; after the
\* last, setWeeklyData(weekly) ends loadMoods.
MoodWeekly(idx, ok) ==
    /\ mood.pc = "weekly"
    /\ WeeklyLookup(idx, ok)
    /\ mood' = IF wk'.active THEN mood
               ELSE [mood EXCEPT !.pc = "idle", !.loaded = ok,
                                 !.weeklyData = IF ok THEN ret'.val.data ELSE @]
    /\ UNCHANGED <<quiz, journal, breath>>

\* The transaction completes: its write is committed.
TxComplete(i) ==
    /\ i \in 1..Len(calls)
    /\ calls[i].caller = "tx"
    /\ backendOk
    /\ calls' = Remove(calls, i)
    /\ ret' = NoRet
    /\ UNCHANGED <<conn, backendOk, store, lastWrite, clock, wk, quiz, journal, mood, breath>>

\* The commit fails (the quota is exceeded, the disk fails): the transaction
\* aborts and its write is undone.  No handler of the application is called.
TxAbort(i) ==
    /\ i \in 1..Len(calls)
    /\ calls[i].caller = "tx"
    /\ ~backendOk
    /\ store' = [store EXCEPT ![calls[i].store] = calls[i].undo.store]
    /\ lastWrite' = [lastWrite EXCEPT ![calls[i].store] = calls[i].undo.lastWrite]
    /\ calls' = Remove(calls, i)
    /\ ret' = NoRet
    /\ UNCHANGED <<conn, backendOk, clock, wk, quiz, journal, mood, breath>>

\* ------------------------------------ specification: the mood tracker
\* The user picks a mood and saves it, at any time of day in any time zone; the
\* clock advances between two handlers.
Moods == {"Happy", "Sad"}

NextMood ==
    \/ ModuleLoad
    \/ OpenSuccess
    \/ mood.pc = "idle" /\ Tick(TickHours * MsPerHour)
    \/ MoodMount
    \/ \E m \in Moods : SetSelectedMood(m)
    \/ HandleSaveMood
    \/ HandleUpdateMood
    \/ \E i \in 1..Len(calls) : MoodSettle(i, TRUE)
    \/ \E i \in 1..Len(calls) : MoodWeekly(i, TRUE)
    \/ \E i \in 1..Len(calls) : TxComplete(i)

SpecMood == InitDerived /\ [][NextMood]_vars

\* ------------------- specification: the mood tracker, the backend failing
\* The same in one time zone, where the backend may fail any request and the
\* commit of a transaction.
InitCommit ==
    /\ InitCommon
    /\ idbSupported = TRUE
    /\ tz = 0

NextCommit ==
    \/ ModuleLoad
    \/ OpenSuccess
    \/ BackendFail
    \/ BackendRecover
    \/ MoodMount
    \/ \E m \in Moods : SetSelectedMood(m)
    \/ HandleSaveMood
    \/ HandleUpdateMood
    \/ \E i \in 1..Len(calls), ok \in BOOLEAN : MoodSettle(i, ok)
    \/ \E i \in 1..Len(calls), ok \in BOOLEAN : MoodWeekly(i, ok)
    \/ \E i \in 1..Len(calls) : TxComplete(i)
    \/ \E i \in 1..Len(calls) : TxAbort(i)

SpecCommit == InitCommit /\ [][NextCommit]_vars

\* ----------------------------------------- BreathingExercise component
\* The route renders <BreathingExercise />.
BreathMount ==
    /\ ~breath.mounted
    /\ breath' = [BreathInit EXCEPT !.mounted = TRUE]
    /\ ret' = NoRet
    /\ UNCHANGED <<conn, backendOk, store, calls, lastWrite, clock, wk, quiz, journal, mood>>

\* The route changes: the effect's cleanup clears the interval.
BreathUnmount ==
    /\ breath.mounted
    /\ breath' = BreathInit
    /\ ret' = NoRet
    /\ UNCHANGED <<conn, backendOk, store, calls, lastWrite, clock, wk, quiz, journal, mood>>

\* The Start button, shown when !isRunning
StartBreathing ==
    /\ breath.mounted
    /\ ~breath.isRunning
    /\ breath' = [breath EXCEPT !.isRunning = TRUE, !.isRunningRef = TRUE,
                                !.cycleCount = 0, !.phase = "inhale",
                                !.currentPhase = "inhale", !.phaseStartTime = now,
                                !.interval = TRUE]
    /\ ret' = NoRet
    /\ UNCHANGED <<conn, backendOk, store, calls, lastWrite, clock, wk, quiz, journal, mood>>

\* the switch of updatePhase
NextPhase(currentPhase) ==
    CASE currentPhase = "inhale" -> "hold"
      [] currentPhase = "hold" -> "exhale"
      [] currentPhase = "exhale" -> "rest"
      [] currentPhase = "rest" -> "inhale"

\* mutant of the counter's update: counted when the rest ends
CycleCountAtRest(currentPhase, prev) == IF currentPhase = "rest" THEN prev + 1 ELSE prev

\* case 'exhale': ... setCycleCount((prev) => prev + 1)
CycleCountAfter(currentPhase, prev) == IF currentPhase = "exhale" THEN prev + 1 ELSE prev

\* The interval's callback updatePhase(), when the phase's duration has elapsed
\* (it returns at once otherwise, and when isRunningRef.current is false).
UpdatePhase ==
    /\ breath.interval
    /\ breath.isRunningRef
    /\ now - breath.phaseStartTime >= PHASE_DURATIONS[breath.currentPhase]
    /\ breath' = [breath EXCEPT !.currentPhase = NextPhase(breath.currentPhase),
                                !.phase = NextPhase(breath.currentPhase),
                                !.cycleCount = CycleCountAfter(breath.currentPhase, @),
                                !.phaseStartTime = now]
    /\ ret' = NoRet
    /\ UNCHANGED <<conn, backendOk, store, calls, lastWrite, clock, wk, quiz, journal, mood>>

\* The Stop button, shown when isRunning
StopBreathing ==
    /\ breath.mounted
    /\ breath.isRunning
    /\ breath' = [breath EXCEPT !.isRunning = FALSE, !.isRunningRef = FALSE,
                                !.interval = FALSE, !.phase = "inhale"]
    /\ ret' = NoRet
    /\ UNCHANGED <<conn, backendOk, store, calls, lastWrite, clock, wk, quiz, journal, mood>>

\* ------------------------------- specification: the breathing exercise
\* The user starts and stops the exercise at any time while the clock advances
\* in steps of the shortest phase; the interval's callback may come late.
BreathTick ==
    /\ now + PHASE_DURATIONS["rest"] <= T0 + MaxBreathTicks * PHASE_DURATIONS["rest"]
    /\ now' = now + PHASE_DURATIONS["rest"]
    /\ ret' = NoRet
    /\ UNCHANGED <<conn, backendOk, store, calls, lastWrite, tz, wk, quiz, journal, mood, breath>>

InitBreath ==
    /\ InitCommon
    /\ idbSupported = TRUE
    /\ tz = 0

NextBreath ==
    \/ BreathMount
    \/ BreathUnmount
    \/ StartBreathing
    \/ UpdatePhase
    \/ StopBreathing
    \/ BreathTick

SpecBreath == InitBreath /\ [][NextBreath]_vars

\* ------------------------------------------------------- claims: the store
Held(n, d) == {r \in store[n] : r.date = d}

\* C1: in each of the three collections there is at most one record per date,
\* and once a save for date d has succeeded (and until a delete or clear of d)
\* the collection holds under d exactly the record of the most recent
\* successful save for d.
C1_KeyUnique ==
    \A n \in StoreNames, d \in AllDates :
        /\ Cardinality(Held(n, d)) <= 1
        /\ LastSaved(n, d) # NULL => Held(n, d) = {LastSaved(n, d)}

\* a save has replaced a different record held under the same date
C1_Witness == ret.op = "put" /\ ret.ok /\ ret.old # NULL /\ ret.old # ret.entry

\* C2: a get-by-date that resolves after a successful save of r, with no other
\* write to r.date in between, resolves with r, field for field; and right
\* after the save resolves that is what a get-by-date of r.date reads.
C2_RoundTrip ==
    /\ (ret.op = "get" /\ ret.ok /\ LastSaved(ret.store, ret.key) # NULL)
          => ret.val = LastSaved(ret.store, ret.key)
    /\ (ret.op = "put" /\ ret.ok)
          => OrNull(IDBGet(store[ret.store], ret.entry.date)) = ret.entry

\* a get-by-date has resolved with the record saved before it
C2_Witness ==
    /\ ret.op = "get" /\ ret.ok
    /\ ret.val # NULL
    /\ ret.val = LastSaved(ret.store, ret.key)

\* C3: a delete that reaches a healthy backend resolves whether or not the date
\* has a record; it removes the record of its date and nothing else, so on a
\* date with no record (a second delete in a row) the store is left as it was.
C3_DeleteIdempotent ==
    [][ret'.op = "delete" =>
          LET n == ret'.store
              d == ret'.key
          IN /\ (db = "open" /\ backendOk) => ret'.ok
             /\ ret'.ok => /\ store'[n] = {r \in store[n] : r.date # d}
                           /\ \A m \in StoreNames \ {n} : store'[m] = store[m]
                           /\ Held(n, d) = {} => store' = store
             /\ ~ret'.ok => store' = store]_vars

\* a delete of a date with no record has resolved, with a record under another date
C3_Witness ==
    /\ ret.op = "delete" /\ ret.ok /\ ret.old = NULL
    /\ store[ret.store] # {}

\* ------------------------------------------------------ claims: getStreak
Today == FormatLocal(now)

\* the consecutive days, counted backward from and including day d, that have a mood record
RECURSIVE DaysInARow(_)
DaysInARow(d) == IF Held(MOODS_STORE, d) = {} THEN 0 ELSE 1 + DaysInARow(d - 1)

NoFutureMood == \A r \in store[MOODS_STORE] : r.date <= Today

\* C4: getStreak() resolves with the number of consecutive calendar days,
\* counted backward from and including today, that each have a mood record
\* (0 with no records, 0 when today has none, 3 for today, yesterday and the
\* day before, 1 for today and two days ago).  Stated for stores with no
\* record dated after today, which C5 covers.
C4_StreakCounts ==
    (ret.op = "getStreak" /\ ret.ok /\ NoFutureMood) => ret.val = DaysInARow(Today)

\* C5: with a mood record dated later than today, getStreak() resolves with 0.
C5_FutureBreaksStreak ==
    (ret.op = "getStreak" /\ ret.ok /\ ~NoFutureMood) => ret.val = 0

\* -------------------------------------------------- claims: getWeeklyData
\* C6: getWeeklyData() resolves with exactly 7 entries, of 7 consecutive
\* calendar days oldest first, the last being today: the key the mood tracker
\* saves under, format(today, 'yyyy-MM-dd').
C6_WeeklyShape ==
    (ret.op = "getWeeklyData" /\ ret.ok) =>
        LET data == ret.val.data
        IN /\ Len(data) = 7
           /\ \A k \in 1..6 : data[k + 1].date = data[k].date + 1
           /\ data[7].date = FormatLocal(ret.val.today)

\* C7: when no write to moods lands during the call, each slot of
\* getWeeklyData() carries the mood of the record stored under the slot's
\* date, and null exactly when there is no such record.
C7_WeeklySlots ==
    (ret.op = "getWeeklyData" /\ ret.ok /\ ret.clean) =>
        \A k \in 1..Len(ret.val.data) :
            LET slot == ret.val.data[k]
            IN IF Held(MOODS_STORE, slot.date) = {}
               THEN slot.mood = NullMood
               ELSE slot.mood # NullMood /\ \E r \in Held(MOODS_STORE, slot.date) : slot.mood = r.mood

\* a call with no write in between returned a week with a mood in one slot and null in another
C7_Witness ==
    /\ ret.op = "getWeeklyData" /\ ret.ok /\ ret.clean
    /\ \E k \in 1..7 : ret.val.data[k].mood = "Sad"
    /\ \E k \in 1..7 : ret.val.data[k].mood = NullMood
    /\ store[MOODS_STORE] # {}

\* C28: getWeeklyData() returns a consistent snapshot: the 7 slots together
\* equal the contents of the moods collection at one instant between the
\* call's start and its completion, whatever writes interleave with the lookups.
C28_WeeklySnapshot ==
    [][(wk.active /\ ret'.op = "getWeeklyData" /\ ret'.ok)
          => \E t \in wk.snaps : AgreesWith(t, ret'.val.data)]_vars

\* ------------------------------------------------------- claims: the quiz
\* the level the specification gives a score
LevelOf(score) ==
    IF score <= 25 THEN "Low" ELSE IF score >= 41 THEN "High" ELSE "Moderate"

QuizEntriesWritten ==
    store[STRESS_QUIZ_STORE] \cup {calls[i].entry : i \in {j \in 1..Len(calls) : calls[j].caller = "quiz"}}

\* C8: every StressQuizEntry the submit handler writes has score = the sum of
\* the values of its answers, and level Low for score <= 25, Moderate for
\* 26..40, High for score >= 41.
C8_ScoreAndLevel ==
    \A r \in QuizEntriesWritten :
        /\ r.score = SumOver(r.answers, DOMAIN r.answers)
        /\ r.level = LevelOf(r.score)

\* a quiz of score 41 (the lowest High) has been persisted
C8_Witness == \E r \in store[STRESS_QUIZ_STORE] : r.score = 41 /\ r.level = "High"

\* C9: every StressQuizEntry persisted (or on its way to the store) answers all
\* 10 questions with values in 1..5, so its score is between 10 and 50; no
\* partially answered quiz is saved, on a retake either.
C9_CompleteAnswers ==
    \A r \in QuizEntriesWritten :
        /\ DOMAIN r.answers = 1..10
        /\ \A q \in DOMAIN r.answers : r.answers[q] \in 1..5
        /\ r.score \in 10..50

\* a retake: a quiz is persisted, and the user has answered part of the next one
C9_Witness ==
    /\ store[STRESS_QUIZ_STORE] # {}
    /\ ~quiz.showResults
    /\ Len(quiz.answers) \in 1..9

\* ----------------------------------------------------- claims: the journal
\* C10: a journal record's createdAt is stamped when the record is first
\* created for a date, and every later write to the record (auto-save or
\* explicit save, in one session or after the page is left and reopened) writes
\* the same createdAt, until the record is deleted.
C10_CreatedAtPreserved ==
    [][\A old \in store[JOURNAL_STORE], new \in store'[JOURNAL_STORE] :
          new.date = old.date => new.createdAt = old.createdAt]_vars

JournalRecord(d) == {r \in store[JOURNAL_STORE] : r.date = d}

\* C11: the auto-save path writes records with draft = TRUE, the explicit Save
\* writes records with draft = FALSE, and when an explicit save completes the
\* stored record of its date has draft = FALSE.
C11_DraftFlag ==
    /\ [](\A i \in 1..Len(calls) :
            /\ calls[i].caller = "jauto" => calls[i].entry.draft
            /\ calls[i].caller = "jsave" => ~calls[i].entry.draft)
    /\ [][\A i \in 1..Len(calls) :
            (calls[i].caller = "jsave" /\ calls' = Remove(calls, i) /\ ret'.op = "put" /\ ret'.ok)
            => \E r \in store'[JOURNAL_STORE] : r.date = calls[i].key /\ ~r.draft]_vars

\* an explicit save has completed over an auto-saved draft
C11_Witness ==
    /\ ret.op = "put" /\ ret.store = JOURNAL_STORE /\ ret.ok
    /\ ~ret.entry.draft
    /\ ret.old # NULL /\ ret.old.draft
    /\ \E r \in JournalRecord(ret.key) : ~r.draft

\* C12: once the stored journal record of a date has draft = FALSE, no step
\* that leaves a record for the date (page load, typing, the auto-save timer,
\* further saves: anything but a delete) makes it draft = TRUE.
C12_NoFinalToDraft ==
    [][\A old \in store[JOURNAL_STORE], new \in store'[JOURNAL_STORE] :
          (new.date = old.date /\ ~old.draft) => ~new.draft]_vars

\* C13: once a handleDelete() has completed, the store holds no journal record
\* for today until the user enters new content, also when an auto-save timer
\* was pending, or fired, while the delete was in flight.
C13_DeleteStaysAbsent ==
    journal.cleared => JournalRecord(FormatLocal(now)) = {}

\* C14: a journal record created for a date after the date's record was
\* deleted carries the instant of its own creation (the instant of the write
\* that created it), not a time of the deleted record.
C14_RecreatedIsNew ==
    (/\ ret.op = "put" /\ ret.store = JOURNAL_STORE /\ ret.ok
     /\ ret.old = NULL
     /\ journal.deletedAt # NoTime)
    => ret.entry.createdAt = ret.entry.lastModified

\* a save has overwritten the journal record of its date
JournalOverwritten ==
    /\ ret.op = "put" /\ ret.store = JOURNAL_STORE /\ ret.ok
    /\ ret.old # NULL

JournalQuiescent ==
    /\ journal.mounted
    /\ calls = <<>>
    /\ ~journal.timer.set /\ ~journal.isSaving
    /\ ret.store = JOURNAL_STORE /\ ret.op \in {"put", "delete"} /\ ret.ok

\* C25: once the UI's writes have completed and the UI is quiescent, the view
\* agrees with the store; for the journal: the draft indicator equals the
\* stored record's draft flag, and an editor that a completed delete emptied
\* (and the user left empty) means there is no stored record for today.
C25_JournalViewAgrees ==
    JournalQuiescent =>
        /\ \A r \in JournalRecord(FormatLocal(now)) : r.draft = journal.isDraft
        /\ (journal.content = <<>> /\ journal.cleared) => JournalRecord(FormatLocal(now)) = {}

\* ------------------------------------------------ claims: initialization
\* the calls awaiting the initialization promise
Awaiting == Len(SelectSeq(calls, LAMBDA c : c.st = "init"))

\* C16: whatever the interleaving of initIndexedDB() calls (the module-level one
\* included) and accessor calls made before the store is ready, the process
\* issues at most one indexedDB.open; the callers that wait resume only on the
\* outcome of that open (together on its success, or failing once it is
\* rejected), and no open is issued once the store is open.
C16_InitCoalesced ==
    /\ [](/\ opens <= 1
          /\ db = "open" => (opens = 1 /\ initPromise = "resolved" /\ Awaiting = 0)
          /\ Awaiting > 0 => initPromise \in {"pending", "rejected"})
    /\ [][/\ db = "open" => opens' = opens
          /\ Awaiting' < Awaiting =>
                \/ initPromise = "pending" /\ initPromise' = "resolved" /\ Awaiting' = 0
                \/ initPromise = "rejected" /\ ~ret'.ok]_vars

\* an accessor called before the store was ready waits on the one open
C16_Witness ==
    /\ opens = 1
    /\ initPromise = "pending"
    /\ Awaiting > 0

\* C17: where IndexedDB is unsupported, or the open fails (as it does when the
\* schema upgrade fails), initIndexedDB() is rejected, and from then on every
\* accessor call (get, getAll, save, delete, getStreak, getWeeklyData) fails
\* and leaves the stores alone; only with the store open, on an object store
\* the database has, does an accessor run a request.
C17_InitFailureIsFinal ==
    /\ [](/\ (initPromise # "null" /\ ~idbSupported) => initPromise = "rejected"
          /\ initPromise = "rejected" => (db = "null" /\ (ret.op # "none" => ~ret.ok))
          /\ \A i \in 1..Len(calls) :
                calls[i].st = "req" => (db = "open" /\ calls[i].store \in schema.stores))
    /\ [][/\ (initPromise = "pending" /\ initPromise' # "pending" /\ ~backendOk)
                => initPromise' = "rejected"
          /\ initPromise = "rejected"
                => (initPromise' = "rejected" /\ store' = store /\ schema' = schema)]_vars

\* the open failed, the backend has recovered, and a getWeeklyData() has failed
C17_Witness ==
    /\ idbSupported /\ backendOk
    /\ initPromise = "rejected"
    /\ ret.op = "getWeeklyData" /\ ~ret.ok

\* C18: a successful open from any earlier schema (version 0 with no object
\* store, 1, or 2) leaves the database at DB_VERSION with the object stores
\* moods, stressQuizzes and journals; the upgrade creates only the object stores
\* that were missing (they start empty), keeps the others with every record
\* they held, and run again on its own result changes nothing.
C18_UpgradeAdditive ==
    /\ [](db = "open" =>
            /\ schema.version = DB_VERSION
            /\ schema.stores = StoreNames
            /\ OnUpgradeNeeded(schema).stores = schema.stores)
    /\ [][(initPromise = "pending" /\ db' = "open") =>
            /\ schema.stores \subseteq schema'.stores
            /\ \A n \in StoreNames :
                  store'[n] = IF n \in schema.stores THEN store[n] ELSE {}]_vars

\* a version 1 database holding moods has been opened and upgraded
C18_Witness ==
    /\ db = "open"
    /\ schema.oldVersion = 1
    /\ schema.stores = StoreNames
    /\ store[MOODS_STORE] # {}

\* ------------------------------------------------------ claims: failures
\* C19: a call whose request the backend fails (read, put or delete) rejects to
\* its caller, it does not resolve, and every object store holds what it held
\* before the call settled.
C19_FailureRejects ==
    [][/\ (Len(calls') < Len(calls) /\ ~backendOk) => (ret'.op # "none" /\ ~ret'.ok)
       /\ (ret'.op # "none" /\ ~ret'.ok) => store' = store]_vars

\* with the store open, the backend has failed a put of a record that differs
\* from what the store holds
C19_Witness ==
    /\ db = "open"
    /\ ret.op = "put" /\ ~ret.ok
    /\ ret.entry \notin store[ret.store]

\* C20: a call made while the backend is supported and healthy makes a fresh
\* attempt, whatever failed before: it is not bound to the rejection of an
\* earlier open, so after a failed open a later call can open the store.
C20_RetryRecovers ==
    [][(Len(calls') > Len(calls) /\ idbSupported /\ backendOk) =>
          ~(calls'[Len(calls')].st = "init" /\ initPromise' = "rejected")]_vars

\* a text of no characters, or of spaces only
IsBlank(text) == \A k \in 1..Len(text) : text[k] = " "

JournalEntriesWritten ==
    store[JOURNAL_STORE] \cup
    {calls[i].entry : i \in {j \in 1..Len(calls) : calls[j].op = "put" /\ calls[j].store = JOURNAL_STORE}}

\* C21: no journal record with empty or whitespace-only content is persisted,
\* or on its way to the store: every record has a non-blank content, stored
\* trimmed; clearing the editor writes nothing.
C21_NoEmptyJournal ==
    /\ [](\A r \in JournalEntriesWritten :
            /\ ~IsBlank(r.content)
            /\ r.content[1] # " " /\ r.content[Len(r.content)] # " ")
    /\ [][(/\ journal.mounted /\ journal'.mounted /\ ret'.op = "none"
           /\ journal'.content # journal.content /\ IsBlank(journal'.content))
            => (calls' = calls /\ store' = store /\ ~journal'.timer.set)]_vars

\* the user has blanked the editor over a stored record, which stays as it was
C21_Witness ==
    /\ journal.mounted /\ ~journal.cleared
    /\ journal.content = <<" ">>
    /\ ~journal.timer.set
    /\ calls = <<>>
    /\ \E r \in JournalRecord(FormatLocal(now)) : r.content = <<"b">>

\* the write calls on a collection that have been issued and have not settled
WritesInFlight(n) == {i \in 1..Len(calls) : IsWrite(calls[i]) /\ calls[i].store = n}

\* C24: the UI never has two writes to the same collection in flight at once;
\* in the journal an auto-save and an explicit save or delete are never
\* outstanding together.
C24_OneWriteInFlight ==
    \A i, j \in WritesInFlight(JOURNAL_STORE) :
        (calls[i].st = "req" /\ calls[j].st = "req" /\ calls[i].caller = "jauto")
            => calls[j].caller \notin {"jsave", "jdel"}

\* C26: no accessor begins a transaction while the connection handle is unset:
\* a call's request exists, and a call succeeds, only with db assigned; db is
\* assigned by the one successful open and never reset.
C26_TransactionAfterOpen ==
    /\ []((\E i \in 1..Len(calls) : calls[i].st = "req") => db = "open")
    /\ []((ret.op # "none" /\ ret.ok) => db = "open")
    /\ [][db # "null" => db' = db]_vars
    /\ [][db' # db => (db = "null" /\ initPromise = "pending" /\ initPromise' = "resolved")]_vars

\* a call made while the open was pending has begun its transaction
C26_Witness ==
    /\ db = "open"
    /\ \E i \in 1..Len(calls) : calls[i].waited /\ calls[i].st = "req"

\* the records of store n under a date other than d
OtherDates(s, d) == {r \in s : r.date # d}

\* C27: frame conditions.  A write through one collection's accessors leaves
\* the other two collections as they were, and (clearAll excepted) every record
\* of its own collection under another date; the reads and the two derived
\* queries leave all three collections as they were.
C27_Frame ==
    [][/\ \A n \in StoreNames : n # ret'.store => store'[n] = store[n]
       /\ ret'.op \in {"put", "delete"} =>
             OtherDates(store'[ret'.store], ret'.key) = OtherDates(store[ret'.store], ret'.key)
       /\ ret'.op \notin {"put", "delete", "clear"} => store' = store]_vars

\* a record was saved beside a record of another date, the other collections
\* holding records
C27_Witness ==
    /\ ret.op = "put" /\ ret.ok /\ ret.store = MOODS_STORE
    /\ OtherDates(store[MOODS_STORE], ret.key) # {}
    /\ store[STRESS_QUIZ_STORE] # {} /\ store[JOURNAL_STORE] # {}

\* ------------------------------------------------------ claims: termination
\* C30: provided the backend answers every request, every call of an accessor,
\* of getStreak() and of getWeeklyData() eventually resolves or rejects,
\* whether it was issued before, during or after initialization.
C30_CallsSettle ==
    /\ (InFlight("env") > 0) ~> (InFlight("env") = 0)
    /\ (InFlight("streak") > 0) ~> (InFlight("streak") = 0)
    /\ wk.active ~> (~wk.active /\ InFlight("weekly") = 0)

\* getWeeklyData() was called while the open was pending, and its lookup has
\* begun
C30_Witness ==
    /\ wk.active
    /\ \E i \in 1..Len(calls) : calls[i].caller = "weekly" /\ calls[i].waited /\ calls[i].st = "req"

\* ------------------------------------------- claims: the breathing exercise
\* C23: in a mounted exercise, while it runs the phase advances only in the
\* order inhale -> hold -> exhale -> rest -> inhale; the counter of completed
\* cycles goes up by exactly one at each exhale -> rest transition and at no
\* other time, and is set to 0 only by Start; after Stop the phase is inhale,
\* and neither phase nor counter changes until the next Start.
C23_BreathingCycle ==
    /\ []((breath.mounted /\ ~breath.isRunning) => breath.phase = "inhale")
    /\ [][(breath.mounted /\ breath'.mounted) =>
            /\ (breath.isRunning /\ breath'.isRunning /\ breath'.phase # breath.phase)
                  => breath'.phase = NextPhase(breath.phase)
            /\ (breath.isRunning /\ breath'.isRunning /\ breath.phase = "exhale" /\ breath'.phase = "rest")
                  => breath'.cycleCount = breath.cycleCount + 1
            /\ breath'.cycleCount # breath.cycleCount
                  => \/ /\ breath'.cycleCount = breath.cycleCount + 1
                        /\ breath.isRunning /\ breath'.isRunning
                        /\ breath.phase = "exhale" /\ breath'.phase = "rest"
                     \/ /\ breath'.cycleCount = 0
                        /\ ~breath.isRunning /\ breath'.isRunning
            /\ (~breath.isRunning /\ ~breath'.isRunning)
                  => (breath'.phase = breath.phase /\ breath'.cycleCount = breath.cycleCount)]_vars

\* the exercise was stopped after a full cycle: the counter shows it still
C23_Witness ==
    /\ breath.mounted /\ ~breath.isRunning
    /\ breath.cycleCount = 1
    /\ now >= T0 + 13 * PHASE_DURATIONS["rest"]

\* ------------------------------------------------ claims: the mood tracker
\* C22: a write accessor's promise resolves only after its transaction has
\* completed: once saveMood(entry) has resolved, the write is applied in the
\* store and the reload that follows (loadMoods) observes it.
C22_WriteObserved ==
    (mood.entry # NULL /\ mood.pc \in {"all", "streak", "weekly"}) =>
        /\ mood.entry \in store[MOODS_STORE]
        /\ mood.todayEntry = mood.entry

\* C29: the three notions of today agree: after the mood tracker has saved a
\* mood for today and reloaded, the streak is at least 1 and the last slot of
\* the weekly data carries today's date key and the saved mood, at every time
\* of day in every time zone.
C29_TodayAgrees ==
    (mood.pc = "idle" /\ mood.loaded /\ mood.entry # NULL) =>
        /\ mood.streak >= 1
        /\ Len(mood.weeklyData) = 7
        /\ mood.weeklyData[7] = [date |-> mood.entry.date, mood |-> mood.entry.mood]

====
